---- MODULE Spec2Model ----
(***************************************************************************)
(* IndexedChain (indexed_chain.py): a TChain that caches, per selection    *)
(* (TCut), the TEntryList of the entries passing it, in one ROOT file per  *)
(* selection under cache_directory, and replays cached lists.              *)
(*                                                                         *)
(* The ROOT and PyROOT behaviour the handlers rest on is modelled as far   *)
(* as the handlers observe it:                                             *)
(*  - a TEntryList is a set of entry numbers (TEntryList::Enter sets a     *)
(*    bit) with a cursor kept in the object (TEntryList::Next), which is   *)
(*    never reset by the chain;                                            *)
(*  - a TEntryList read with TFile::Get, or attached with SetDirectory,    *)
(*    belongs to that TFile: closing or destroying the TFile deletes it,   *)
(*    and PyROOT then turns every Python reference to it into a null       *)
(*    proxy, which is false in a boolean context and raises when a method  *)
(*    is called on it;                                                     *)
(*  - TFile::Get returns a null proxy for a name the file does not hold;    *)
(*  - TFile::Open makes the file opened the current directory (gDirectory) *)
(*    and closing the current directory makes gROOT current; a TEntryList  *)
(*    made by its constructor is appended to the current directory, which  *)
(*    deletes it when it is a TFile that is closed or destroyed.           *)
(***************************************************************************)
EXTENDS Integers, Sequences, FiniteSets, TLC

\* ---------------------------------------------------------------- bounds
\* largest number of records of the chain (GetEntries())
MaxEntries == 2

\* most entries one generator is pulled for: a generator suspended in the list
\* loop goes on for as long as the caller keeps making fresh lists current
MaxYielded == 3

\* largest number of records of the chain of a caller with two selections
MaxListEntries == 1

\* ------------------------------------------------------- selections, keys
\* a TCut as the chain uses it: GetName() and GetTitle()
TCut(name, title) == [name |-> name, title |-> title]

even_cut == TCut("even entries", "x%2==0")

odd_cut == TCut("odd entries", "x%2!=0")

dummy_filename == "/tmp/dummy_file.root"

dummy_treename == "dummy_tree"

cache_directory == "./cache_IndexedChain"

\* the selections of the runs, and preselect's "no selection" argument
Cuts == {even_cut, odd_cut}

NoCut == TCut("", "")

\* the dataset of a chain: TChain::GetName() and the names of the files added
Dataset(name, files) == [name |-> name, files |-> files]

dummy_chain == Dataset(dummy_treename, <<dummy_filename>>)

\* ''.join(strings)
RECURSIVE join(_)
join(strings) ==
  IF strings = <<>> THEN "" ELSE Head(strings) \o join(Tail(strings))

\* the filenames property: the names of the chain's files, in the order added
\* (no _filenames attribute is ever set, so the list is read at every call)
filenames(chain) == chain.files

string_to_be_hashed(tcut, chain) ==
  join(<<tcut.name, tcut.title, chain.name>> \o filenames(chain))

\* hash_func(...).hexdigest(), the hash taken as injective on its input:
\* the digest is identified with the string hashed
hash(tcut, chain) == <<"md5", string_to_be_hashed(tcut, chain)>>

\* os.path.join(cache_directory, name + '_' + hexdigest + '.root'). The digest
\* has a fixed width, so the name and the digest are both recoverable from the
\* concatenation: the file name is the pair of them under the directory.
tcut_filename(tcut, chain) ==
  [dir |-> cache_directory, name |-> tcut.name, digest |-> hash(tcut, chain)]

\* the cache files of the selections over the dummy chain
Filenames == {tcut_filename(c, dummy_chain) : c \in Cuts}

NoFilename == [dir |-> "", name |-> "", digest |-> <<"md5", "">>]

\* ------------------------------------------------------------- TEntryList
Min(S) == CHOOSE i \in S : \A j \in S : i <= j

\* the proxy of a null pointer, or of an object ROOT has deleted
NullPtr == [null |-> TRUE, items |-> {}, queried |-> -1, returned |-> -1]

\* r.TEntryList(name, title), and a list as read from a file: the entries,
\* fLastIndexQueried and the last entry number Next() returned
TEntryList(items) ==
  [null |-> FALSE, items |-> items, queried |-> -1, returned |-> -1]

GetN(list) == Cardinality(list.items)

\* TEntryList::Enter(entry): sets the bit of the entry
Enter(list, ientry) == [list EXCEPT !.items = @ \cup {ientry}]

\* TEntryList::Next(): -1 once GetN() entries were returned (and for an empty
\* list), else the next entry after the last one returned
NextValue(list) ==
  IF GetN(list) = list.queried + 1 \/ GetN(list) = 0
     \/ {i \in list.items : i > list.returned} = {}
    THEN -1
    ELSE Min({i \in list.items : i > list.returned})

NextList(list) ==
  IF NextValue(list) < 0 THEN list
  ELSE [list EXCEPT !.queried = @ + 1, !.returned = NextValue(list)]

\* an increasing sequence of the members of a set of entry numbers
RECURSIVE SortedSeq(_)
SortedSeq(S) ==
  IF S = {} THEN <<>> ELSE <<Min(S)>> \o SortedSeq(S \ {Min(S)})

\* ------------------------------------------------------------------ state
VARIABLES
  nentries,           \* TChain::GetEntries() of the chain
  cache_dir,          \* what the path cache_directory is: "absent", "dir", "file"
  disk,               \* the cache files: file name -> what the file holds
  tcuts,              \* self.__tcuts (an attribute only once retrieve has run)
  has_entry_list,     \* self.__has_entry_list: file name -> "nokey", "True", "False"
  entry_list,         \* self.__entry_list: file name -> the list bound to it
  entry_list_file,    \* self.__entry_list_file: file name -> the open TFile
  current_entrylist,  \* self.__current_entrylist: a reference to a list, or None
  gDirectory,         \* ROOT's current directory: gROOT, or the TFile of a key
  gen,                \* the generator made by the last __iter__ call
  yielded,            \* the entry numbers that generator has yielded so far
  last,               \* the last call made on the chain and how it ended
  rt,                 \* per selection: how far a build-save-replay round has got
  replay,             \* how far a preselect-and-iterate round has got
  pc,                 \* test_with_partial_entrylist: the statement to run next
  pred,               \* selection -> the values of x its expression holds for
  counters_pre,       \* counters_pre, by selection
  counters_post,      \* counters_post, by selection
  cuts_left,          \* what is left of the loop over tcuts_with_existing_list()
  key_in,             \* two (selection, dataset) pairs a file name is asked for
  key_out,            \* the file names tcut_filename gave for them
  started,            \* the entries due from the iteration whose body has begun
  poc_entries,        \* ttree_indexing: GetEntries() of the chain
  poc_index,          \* ttree_indexing: self.__index
  poc_added,          \* ttree_indexing: the Add calls made, in order
  poc_err             \* ttree_indexing: how the last Add call ended

chain_vars ==
  <<nentries, cache_dir, disk, tcuts, has_entry_list, entry_list,
    entry_list_file, current_entrylist, gDirectory, gen, yielded, last, rt,
    replay>>

test_vars == <<pc, pred, counters_pre, counters_post, cuts_left>>

key_vars == <<key_in, key_out>>

poc_vars == <<poc_entries, poc_index, poc_added, poc_err>>

\* a cache file: absent, a ROOT file holding no list ("empty"), or a ROOT file
\* holding the list written under the selection's name
Absent == [st |-> "absent", items |-> {}]

EmptyFile == [st |-> "empty", items |-> {}]

ListFile(items) == [st |-> "list", items |-> items]

\* os.path.exists(fname)
os_path_exists(d, fname) == d[fname].st # "absent"

\* ROOT's top directory, as a value of gDirectory and as the owner of a list
gROOT == NoFilename

\* entries of self.__entry_list: no key, a list made by r.TEntryList(...) in
\* the directory owner (gROOT, or the TFile self.__entry_list_file[owner]), or
\* the list that belongs to self.__entry_list_file[key]
\* (entered: the entry numbers add_entry_to_list has entered in a list made by
\* r.TEntryList(...), kept for the record when the list itself is deleted)
NoKey == [st |-> "nokey", obj |-> NullPtr, entered |-> {}, owner |-> gROOT]

PyList(obj, owner) ==
  [st |-> "py", obj |-> obj, entered |-> {}, owner |-> owner]

FileList == [st |-> "file", obj |-> NullPtr, entered |-> {}, owner |-> gROOT]

\* entries of self.__entry_list_file: no key, or an open TFile with the list
\* read from it (a null proxy when it holds none)
NoFile == [open |-> FALSE, obj |-> NullPtr]

OpenFile(obj) == [open |-> TRUE, obj |-> obj]

\* references held by self.__current_entrylist
None == [ref |-> "None", key |-> NoFilename, obj |-> NullPtr]

\* the list bound to self.__entry_list[key]
DictRef(key) == [ref |-> "dict", key |-> key, obj |-> NullPtr]

\* the list of the TFile self.__entry_list_file[key], no longer bound
FileRef(key) == [ref |-> "file", key |-> key, obj |-> NullPtr]

\* a Python-owned list that is no longer bound in self.__entry_list
Detached(obj) == [ref |-> "detached", key |-> NoFilename, obj |-> obj]

\* a list ROOT deleted with its TFile
Deleted == [ref |-> "deleted", key |-> NoFilename, obj |-> NullPtr]

\* the list object a bound key designates
Bound(el, elf, key) ==
  IF el[key].st = "file" THEN elf[key].obj ELSE el[key].obj

\* the list object a reference designates
Deref(el, elf, cur) ==
  CASE cur.ref = "dict" -> Bound(el, elf, cur.key)
    [] cur.ref = "file" -> elf[cur.key].obj
    [] cur.ref = "detached" -> cur.obj
    [] OTHER -> NullPtr

\* a reference in a boolean context: None and null proxies are false
Truthy(el, elf, cur) == ~Deref(el, elf, cur).null

\* the reference self.__entry_list[key] evaluates to
RefTo(el, key) == IF el[key].st = "file" THEN FileRef(key) ELSE DictRef(key)

\* the file name of a selection over the chain of the run
fname_of(tcut) == tcut_filename(tcut, dummy_chain)

\* the file names of a list of selections
Keys(ts) == {fname_of(ts[i]) : i \in 1..Len(ts)}

\* the lists of selections a caller passes: each selection at most once
TcutLists ==
  {<<>>} \cup {<<c>> : c \in Cuts}
         \cup {<<c, d>> : <<c, d>> \in {p \in Cuts \X Cuts : p[1] # p[2]}}

\* a generator of __iter__: not made yet ("none"), made and not yet started
\* ("new"), suspended at the yield of the list loop ("replay", with the entry
\* number fetched ahead) or of the xrange loop ("linear", with the next index
\* and the bound xrange took), or finished ("done"); cur0 is what
\* self.__current_entrylist was when the body began
Gen(st, i, n, ientry, cur0) ==
  [st |-> st, i |-> i, n |-> n, ientry |-> ientry, cur0 |-> cur0]

NoGen == Gen("none", 0, 0, -1, None)

\* a call on the chain: the method, how it ended, and for preselect its
\* argument and whether a list was current before it, for retrieve_entrylists
\* whether it repeats the call made just before
Call(op, err) ==
  [op |-> op, err |-> err, tcut |-> NoCut, was_active |-> FALSE,
   repeated |-> FALSE]

\* ------------------------------------------------ the rounds kept track of
\* rt[c]: "pass" since a retrieve classified c as without list, with P the
\* entries entered for c since then, in increasing order and below nentries,
\* and nothing called but add_entry_to_list and iteration; "saved" after the
\* save_lists that ended the pass; "retr" after the retrieve that followed;
\* "pre" after preselect(c); "iter" during the iteration that followed.
\* "raised" when the call that would have taken the round on raised instead.
\* "cleared" after a delete_entrylists of c, and through a new chain object;
\* reset: the last call was the retrieve of c that followed.
\* removed: that delete_entrylists found the file of c and removed it; fresh:
\* the chain object was made after it.
RtOff ==
  [ph |-> "off", P |-> {}, reset |-> FALSE, removed |-> FALSE, fresh |-> FALSE]

Rt(ph, P) ==
  [ph |-> ph, P |-> P, reset |-> FALSE, removed |-> FALSE, fresh |-> FALSE]

AllOff == [c \in Cuts |-> RtOff]

RtRetrieve(r, d, ts) ==
  [c \in Cuts |->
     [ph |-> IF fname_of(c) \in Keys(ts) /\ ~os_path_exists(d, fname_of(c))
               THEN "pass"
             ELSE IF fname_of(c) \in Keys(ts) /\ r[c].ph = "saved"
               THEN "retr"
             ELSE "off",
      P |-> IF fname_of(c) \in Keys(ts) /\ os_path_exists(d, fname_of(c))
               /\ r[c].ph = "saved"
              THEN r[c].P ELSE {},
      reset |-> fname_of(c) \in Keys(ts) /\ r[c].ph = "cleared",
      removed |-> fname_of(c) \in Keys(ts) /\ r[c].ph = "cleared"
                  /\ r[c].removed,
      fresh |-> fname_of(c) \in Keys(ts) /\ r[c].ph = "cleared" /\ r[c].fresh]]

RtAdd(r, tcut, ientry, n) ==
  [c \in Cuts |->
     IF r[c].ph # "pass" THEN RtOff
     ELSE IF c # tcut THEN Rt("pass", r[c].P)
     ELSE IF ientry < n /\ \A j \in r[c].P : j < ientry
       THEN Rt("pass", r[c].P \cup {ientry})
     ELSE RtOff]

RtKeep(r, from, to) ==
  [c \in Cuts |->
     IF r[c].ph \in from
       THEN [Rt(to[r[c].ph], r[c].P) EXCEPT !.removed = r[c].removed]
       ELSE RtOff]

\* a call raised: the rounds it belonged to, of tcut or (NoCut) of any selection
RtRaised(r, from, tcut) ==
  [c \in Cuts |->
     IF r[c].ph \in from /\ tcut \in {NoCut, c}
       THEN Rt("raised", r[c].P) ELSE RtOff]

RtPreselect(r, tcut) ==
  [c \in Cuts |-> IF c = tcut /\ r[c].ph = "retr" THEN Rt("pre", r[c].P) ELSE RtOff]

RtDelete(r, d, ts) ==
  [c \in Cuts |->
     IF fname_of(c) \in Keys(ts)
       THEN [Rt("cleared", {}) EXCEPT !.removed =
               os_path_exists(d, fname_of(c))
               \/ (r[c].ph = "cleared" /\ r[c].removed)]
     ELSE IF r[c].ph = "cleared" THEN r[c]
     ELSE RtOff]

\* replay: "armed" after a preselect that made a list of a selection with an
\* existing list the current one, with seq the entries of that list in stored
\* order; "on" during the iteration started next, while nothing but next() is
\* called.
ReplayOff == [ph |-> "off", seq |-> <<>>]

ReplayArmed(list) == [ph |-> "armed", seq |-> SortedSeq(list.items)]

ReplayOn(rp) == IF rp.ph = "off" THEN ReplayOff ELSE [rp EXCEPT !.ph = "on"]

\* --------------------------------------------------------------- handlers
\* mkdir_if_needed(cache_directory): what the path is afterwards
mkdir_if_needed(cd) == IF cd = "absent" THEN "dir" ELSE cd

\* (a check_cache_dir without the assert)
check_skipped(cd) == TRUE

\* check_cache_dir(): whether the assert passes
check_cache_dir(cd) == mkdir_if_needed(cd) = "dir"

\* entrylist_file.Get(tcut.GetName()) on the file opened
Get(file) == IF file.st = "list" THEN TEntryList(file.items) ELSE NullPtr

\* (a retrieve that takes a key it already holds for a list that exists)
RetrievedHasKnown(d, has, ks) ==
  [k \in Filenames |->
     IF k \notin ks THEN has[k]
     ELSE IF os_path_exists(d, k) \/ has[k] # "nokey" THEN "True" ELSE "False"]

\* the loop of retrieve_entrylists, key by key
RetrievedHas(d, has, ks) ==
  [k \in Filenames |->
     IF k \notin ks THEN has[k]
     ELSE IF os_path_exists(d, k) THEN "True" ELSE "False"]

RetrievedFiles(d, elf, ks) ==
  [k \in Filenames |->
     IF k \in ks /\ os_path_exists(d, k) THEN OpenFile(Get(d[k])) ELSE elf[k]]

\* storing the new TFile drops the one the key had, which is destroyed with
\* the lists of its directory
Orphaned(d, el, elf, ks) ==
  [j \in Filenames |->
     IF /\ el[j].st = "py"
        /\ el[j].owner \in ks
        /\ os_path_exists(d, el[j].owner)
        /\ elf[el[j].owner].open
       THEN [el[j] EXCEPT !.obj = NullPtr, !.owner = gROOT]
       ELSE el[j]]

\* (a retrieve that binds a new list without reading the one in the file)
RetrievedListsUnread(d, el, ks, dir) ==
  [k \in Filenames |->
     IF k \notin ks THEN el[k] ELSE PyList(TEntryList({}), dir)]

RetrievedLists(d, el, ks, dir) ==
  [k \in Filenames |->
     IF k \notin ks THEN el[k]
     ELSE IF os_path_exists(d, k) THEN FileList
     ELSE PyList(TEntryList({}), dir)]

\* TFile.Open(fname) makes the file the current directory
RetrievedDirectory(d, dir, ks) ==
  IF \E k \in ks : os_path_exists(d, k)
    THEN CHOOSE k \in ks : os_path_exists(d, k) ELSE dir

\* what a reference held across the loop designates afterwards: the TFile a
\* key had is destroyed, with its list, when a new one is stored for the key;
\* a Python-owned list a key no longer binds lives on through the reference
RetrievedCurrent(d, el, cur, ks) ==
  IF cur.ref = "file" /\ cur.key \in ks /\ os_path_exists(d, cur.key)
    THEN Deleted
  ELSE IF cur.ref = "dict" /\ cur.key \in ks
    THEN Detached(el[cur.key].obj)
  ELSE cur

\* the loop of retrieve_entrylists over the selections still to look up
RECURSIVE retrieve_loop(_, _, _)
retrieve_loop(todo, d, st) ==
  IF todo = <<>> THEN st
  ELSE LET ks == {fname_of(Head(todo))}
       IN retrieve_loop(Tail(todo), d,
            [has |-> RetrievedHas(d, st.has, ks),
             elf |-> RetrievedFiles(d, st.elf, ks),
             el |-> RetrievedLists(d, Orphaned(d, st.el, st.elf, ks), ks,
                                   st.dir),
             cur |-> RetrievedCurrent(d, st.el, st.cur, ks),
             dir |-> RetrievedDirectory(d, st.dir, ks)])

retrieve_entrylists(ts) ==
  /\ last' = [Call("retrieve", IF check_cache_dir(cache_dir) THEN "none"
                                ELSE "AssertionError")
                EXCEPT !.repeated = last.op = "retrieve" /\ last.err = "none"
                                    /\ check_cache_dir(cache_dir)
                                    /\ tcuts.list = ts]
  /\ cache_dir' = mkdir_if_needed(cache_dir)
  /\ IF check_cache_dir(cache_dir)
       THEN LET res == retrieve_loop(ts, disk,
                         [has |-> has_entry_list, elf |-> entry_list_file,
                          el |-> entry_list, cur |-> current_entrylist,
                          dir |-> gDirectory])
            IN /\ tcuts' = [set |-> TRUE, list |-> ts]
               /\ has_entry_list' = res.has
               /\ entry_list_file' = res.elf
               /\ entry_list' = res.el
               /\ current_entrylist' = res.cur
               /\ gDirectory' = res.dir
               /\ rt' = RtRetrieve(rt, disk, ts)
       ELSE /\ UNCHANGED <<tcuts, has_entry_list, entry_list_file, entry_list,
                           current_entrylist, gDirectory>>
            /\ rt' = RtRaised(rt, {"saved"}, NoCut)
  /\ replay' = ReplayOff
  /\ UNCHANGED <<nentries, disk, gen, yielded>>

\* (every selection of the last retrieve, listed or not)
tcuts_retrieved(tc, has) == tc.list

\* [t for t in self.__tcuts if self.__has_entry_list[self.tcut_filename(t)]]
tcuts_with_existing_list(tc, has) ==
  SelectSeq(tc.list, LAMBDA t : has[fname_of(t)] = "True")

\* (a classification that looks at the cache directory again at each call)
tcuts_without_file(tc, has) ==
  SelectSeq(tc.list, LAMBDA t : ~os_path_exists(disk, fname_of(t)))

\* [t for t in self.__tcuts if not self.__has_entry_list[self.tcut_filename(t)]]
tcuts_without_existing_list(tc, has) ==
  SelectSeq(tc.list, LAMBDA t : has[fname_of(t)] = "False")

\* (a preselect that takes any bound list, built or loaded)
has_key_bound(el, has, tcut) ==
  /\ tcut # NoCut
  /\ el[fname_of(tcut)].st # "nokey"

\* the condition of preselect: key in self.__entry_list and self.__has_entry_list[key]
has_list_bound(el, has, tcut) ==
  /\ tcut # NoCut
  /\ el[fname_of(tcut)].st # "nokey"
  /\ has[fname_of(tcut)] = "True"

PreselectCall(tcut, err) ==
  [Call("preselect", err)
     EXCEPT !.tcut = tcut,
            !.was_active = Truthy(entry_list, entry_list_file, current_entrylist)]

preselect(tcut) ==
  /\ IF has_list_bound(entry_list, has_entry_list, tcut)
       THEN /\ current_entrylist' = RefTo(entry_list, fname_of(tcut))
            \* entry_list.GetN() for the log line, after the assignment
            /\ last' = PreselectCall(tcut,
                            IF Bound(entry_list, entry_list_file, fname_of(tcut)).null
                              THEN "ReferenceError" ELSE "none")
            /\ replay' =
                 IF Bound(entry_list, entry_list_file, fname_of(tcut)).null
                   THEN ReplayOff
                   ELSE ReplayArmed(Bound(entry_list, entry_list_file, fname_of(tcut)))
            /\ rt' = IF Bound(entry_list, entry_list_file, fname_of(tcut)).null
                       THEN RtRaised(rt, {"retr"}, tcut)
                       ELSE RtPreselect(rt, tcut)
       ELSE /\ current_entrylist' = None
            /\ last' = PreselectCall(tcut, "none")
            /\ replay' = ReplayOff
            /\ rt' = AllOff
  /\ UNCHANGED <<nentries, cache_dir, disk, tcuts, has_entry_list, entry_list,
                 entry_list_file, gDirectory, gen, yielded>>

\* 0 if not self.__current_entrylist else self.__current_entrylist.GetN()
num_events_preselected ==
  IF ~Truthy(entry_list, entry_list_file, current_entrylist) THEN 0
  ELSE GetN(Deref(entry_list, entry_list_file, current_entrylist))

\* self.__entry_list[key].Enter(ientry), on the list the key binds
EnteredLists(el, key, ientry) ==
  IF el[key].st = "py"
    THEN [el EXCEPT ![key].obj = Enter(@, ientry),
                    ![key].entered = @ \cup {ientry}]
    ELSE el

EnteredFiles(el, elf, key, ientry) ==
  IF el[key].st = "file" THEN [elf EXCEPT ![key].obj = Enter(@, ientry)] ELSE elf

add_entry_to_list(tcut, ientry) ==
  LET key == fname_of(tcut)
      err == IF entry_list[key].st = "nokey" THEN "KeyError"
             ELSE IF Bound(entry_list, entry_list_file, key).null
               THEN "ReferenceError"
             ELSE "none"
  IN /\ last' = Call("add", err)
     /\ IF err = "none"
          THEN /\ entry_list' = EnteredLists(entry_list, key, ientry)
               /\ entry_list_file' =
                    EnteredFiles(entry_list, entry_list_file, key, ientry)
               /\ rt' = RtAdd(rt, tcut, ientry, nentries)
          ELSE /\ UNCHANGED <<entry_list, entry_list_file>>
               /\ rt' = RtRaised(rt, {"pass"}, tcut)
     /\ replay' = ReplayOff
     /\ UNCHANGED <<nentries, cache_dir, disk, tcuts, has_entry_list,
                    current_entrylist, gDirectory, gen, yielded>>

\* the loop of save_lists over the selections still to write: TFile(filename,
\* 'recreate') leaves a file holding nothing; SetDirectory raises on a null
\* proxy; Write stores the list under its name; Close deletes the list, which
\* now belongs to the file written, and leaves gROOT the current directory.
RECURSIVE save_loop(_, _, _, _)
save_loop(todo, d, el, elf) ==
  IF todo = <<>> THEN [disk |-> d, el |-> el, elf |-> elf, err |-> "none"]
  ELSE LET key == fname_of(Head(todo))
           entrylist == Bound(el, elf, key)
       IN IF entrylist.null
            THEN [disk |-> [d EXCEPT ![key] = EmptyFile], el |-> el, elf |-> elf,
                  err |-> "ReferenceError"]
            ELSE save_loop(Tail(todo),
                           [d EXCEPT ![key] = ListFile(entrylist.items)],
                           IF el[key].st = "py"
                             THEN [el EXCEPT ![key].obj = NullPtr,
                                             ![key].owner = gROOT]
                             ELSE el,
                           IF el[key].st = "file"
                             THEN [elf EXCEPT ![key].obj = NullPtr] ELSE elf)

\* (a save_lists that writes the list of every selection retrieved)
tcuts_all(tc, has) == tc.list

\* the selections save_lists writes
tcuts_to_save(tc, has) == tcuts_without_existing_list(tc, has)

save_lists ==
  LET ok == check_cache_dir(cache_dir)
      res == save_loop(tcuts_to_save(tcuts, has_entry_list), disk, entry_list,
                       entry_list_file)
      err == IF ~ok THEN "AssertionError"
             ELSE IF ~tcuts.set THEN "AttributeError"
             ELSE res.err
  IN /\ last' = Call("save", err)
     /\ cache_dir' = mkdir_if_needed(cache_dir)
     /\ IF ok /\ tcuts.set
          THEN /\ disk' = res.disk
               /\ entry_list' = res.el
               /\ entry_list_file' = res.elf
               /\ gDirectory' =
                    IF tcuts_to_save(tcuts, has_entry_list) = <<>>
                      THEN gDirectory ELSE gROOT
          ELSE UNCHANGED <<disk, entry_list, entry_list_file, gDirectory>>
     /\ rt' = IF err = "none"
                THEN RtKeep(rt, {"pass"}, [p \in {"pass"} |-> "saved"])
                ELSE RtRaised(rt, {"pass"}, NoCut)
     /\ replay' = ReplayOff
     /\ UNCHANGED <<nentries, tcuts, has_entry_list, current_entrylist, gen,
                    yielded>>

\* os.remove(fname) for every selection whose file exists
\* (a delete_entrylists that removes nothing)
DeletedNothing(d, ks) == d

DeletedDisk(d, ks) ==
  [k \in Filenames |->
     IF k \in ks /\ os_path_exists(d, k) THEN Absent ELSE d[k]]

\* (a delete_entrylists that clears the dicts of the object as well)
delete_and_clear(ts) ==
  /\ disk' = DeletedDisk(disk, Keys(ts))
  /\ has_entry_list' =
       [k \in Filenames |-> IF k \in Keys(ts) THEN "nokey" ELSE has_entry_list[k]]
  /\ entry_list' =
       [k \in Filenames |-> IF k \in Keys(ts) THEN NoKey ELSE entry_list[k]]
  /\ entry_list_file' =
       [k \in Filenames |-> IF k \in Keys(ts) THEN NoFile ELSE entry_list_file[k]]
  /\ current_entrylist' =
       IF current_entrylist.key \in Keys(ts) THEN None ELSE current_entrylist
  /\ last' = Call("delete", "none")
  /\ rt' = RtDelete(rt, disk, ts)
  /\ replay' = ReplayOff
  /\ UNCHANGED <<nentries, cache_dir, tcuts, gDirectory, gen, yielded>>

delete_entrylists(ts) ==
  /\ disk' = DeletedDisk(disk, Keys(ts))
  /\ last' = Call("delete", "none")
  /\ rt' = RtDelete(rt, disk, ts)
  /\ replay' = ReplayOff
  /\ UNCHANGED <<nentries, cache_dir, tcuts, has_entry_list, entry_list,
                 entry_list_file, current_entrylist, gDirectory, gen, yielded>>

\* IndexedChain(dummy_treename()) and Add(dummy_filename()): a new object over
\* the same dataset; the old one and its open files are dropped
NewChain ==
  /\ tcuts' = [set |-> FALSE, list |-> <<>>]
  /\ has_entry_list' = [k \in Filenames |-> "nokey"]
  /\ entry_list' = [k \in Filenames |-> NoKey]
  /\ entry_list_file' = [k \in Filenames |-> NoFile]
  /\ current_entrylist' = None
  /\ gDirectory' = gROOT
  /\ gen' = NoGen
  /\ yielded' = <<>>
  /\ last' = Call("new", "none")
  /\ rt' = [c \in Cuts |->
              [RtKeep(rt, {"saved", "cleared"},
                      [p \in {"saved", "cleared"} |-> p])[c]
                 EXCEPT !.fresh = rt[c].ph = "cleared"]]
  /\ replay' = ReplayOff
  /\ UNCHANGED <<nentries, cache_dir, disk>>

\* iter(chain): a generator whose body has not begun
IterStart ==
  /\ gen' = Gen("new", 0, 0, -1, None)
  /\ yielded' = <<>>
  /\ last' = Call("iter", "none")
  /\ rt' = RtKeep(rt, {"pass", "pre"},
                  [p \in {"pass", "pre"} |-> IF p = "pre" THEN "iter" ELSE p])
  /\ replay' = IF replay.ph = "armed" THEN ReplayOn(replay) ELSE ReplayOff
  /\ UNCHANGED <<nentries, cache_dir, disk, tcuts, has_entry_list, entry_list,
                 entry_list_file, current_entrylist, gDirectory>>

\* self.__current_entrylist.Next(): the value, and the list advanced in place
AdvancedLists(el, cur) ==
  IF cur.ref = "dict" THEN [el EXCEPT ![cur.key].obj = NextList(@)] ELSE el

AdvancedFiles(elf, cur) ==
  IF cur.ref = "file" THEN [elf EXCEPT ![cur.key].obj = NextList(@)] ELSE elf

AdvancedCurrent(cur) ==
  IF cur.ref = "detached" THEN [cur EXCEPT !.obj = NextList(@)] ELSE cur

\* (a linear loop that stops one entry short)
xrange_short(n) == n - 1

\* range of the linear loop: xrange(self.GetEntries())
xrange_bound(n) == n

\* next(gen) when the body begins: the test of self.__current_entrylist
PullNew ==
  /\ gen.st = "new"
  /\ IF Truthy(entry_list, entry_list_file, current_entrylist)
       THEN LET l0 == Deref(entry_list, entry_list_file, current_entrylist)
                first == NextValue(l0)
                ahead == NextValue(NextList(l0))
            IN IF first >= 0
                 THEN \* GetEntry(first), the next one fetched, then the yield
                      /\ entry_list' = AdvancedLists(
                           AdvancedLists(entry_list, current_entrylist),
                           current_entrylist)
                      /\ entry_list_file' = AdvancedFiles(
                           AdvancedFiles(entry_list_file, current_entrylist),
                           current_entrylist)
                      /\ current_entrylist' =
                           AdvancedCurrent(AdvancedCurrent(current_entrylist))
                      /\ gen' = Gen("replay", 0, 0, ahead, current_entrylist)
                      /\ yielded' = <<first>>
                 ELSE /\ gen' = Gen("done", 0, 0, -1, current_entrylist)
                      /\ UNCHANGED <<entry_list, entry_list_file,
                                     current_entrylist, yielded>>
       ELSE /\ IF 0 < xrange_bound(nentries)
                 THEN /\ gen' = Gen("linear", 1, xrange_bound(nentries), -1,
                                    current_entrylist)
                      /\ yielded' = <<0>>
                 ELSE /\ gen' = Gen("done", 0, xrange_bound(nentries), -1,
                                    current_entrylist)
                      /\ UNCHANGED yielded
            /\ UNCHANGED <<entry_list, entry_list_file, current_entrylist>>
  /\ last' = Call("next", "none")

\* next(gen) resumed in the xrange loop
PullLinear ==
  /\ gen.st = "linear"
  /\ IF gen.i < gen.n
       THEN /\ gen' = [gen EXCEPT !.i = @ + 1]
            /\ yielded' = Append(yielded, gen.i)
       ELSE /\ gen' = [gen EXCEPT !.st = "done"]
            /\ UNCHANGED yielded
  /\ last' = Call("next", "none")
  /\ UNCHANGED <<entry_list, entry_list_file, current_entrylist>>

\* next(gen) resumed in the list loop: the entry fetched ahead is loaded, the
\* next one is asked of whatever self.__current_entrylist is now
PullReplay ==
  /\ gen.st = "replay"
  /\ IF gen.ientry < 0
       THEN /\ gen' = [gen EXCEPT !.st = "done"]
            /\ last' = Call("next", "none")
            /\ UNCHANGED <<entry_list, entry_list_file, current_entrylist,
                           yielded>>
     ELSE IF ~Truthy(entry_list, entry_list_file, current_entrylist)
       THEN /\ gen' = [gen EXCEPT !.st = "done"]
            /\ last' = Call("next", IF current_entrylist = None THEN "AttributeError"
                            ELSE "ReferenceError")
            /\ UNCHANGED <<entry_list, entry_list_file, current_entrylist,
                           yielded>>
     ELSE /\ gen' = [gen EXCEPT !.ientry =
                       NextValue(Deref(entry_list, entry_list_file,
                                       current_entrylist))]
          /\ entry_list' = AdvancedLists(entry_list, current_entrylist)
          /\ entry_list_file' = AdvancedFiles(entry_list_file, current_entrylist)
          /\ current_entrylist' = AdvancedCurrent(current_entrylist)
          /\ yielded' = Append(yielded, gen.ientry)
          /\ last' = Call("next", "none")

Pull ==
  /\ Len(yielded) < MaxYielded
  /\ PullNew \/ PullLinear \/ PullReplay
  /\ rt' = IF last'.err = "none"
             THEN RtKeep(rt, {"pass", "iter"}, [p \in {"pass", "iter"} |-> p])
             ELSE RtRaised(rt, {"iter"}, NoCut)
  /\ replay' = IF replay.ph = "on" /\ last'.err = "none" THEN replay
               ELSE ReplayOff
  /\ UNCHANGED <<nentries, cache_dir, disk, tcuts, has_entry_list, gDirectory>>

\* ------------------------------------------------------------ the program
\* a chain object just made: IndexedChain(name) and Add(filename)
NewObject ==
  /\ tcuts = [set |-> FALSE, list |-> <<>>]
  /\ has_entry_list = [k \in Filenames |-> "nokey"]
  /\ entry_list = [k \in Filenames |-> NoKey]
  /\ entry_list_file = [k \in Filenames |-> NoFile]
  /\ current_entrylist = None
  /\ gDirectory = gROOT
  /\ gen = NoGen
  /\ yielded = <<>>
  /\ last = Call("init", "none")
  /\ rt = AllOff
  /\ replay = ReplayOff

\* no test running
NoTest ==
  /\ pc = "none"
  /\ pred = [c \in Cuts |-> {}]
  /\ counters_pre = [c \in Cuts |-> 0]
  /\ counters_post = [c \in Cuts |-> 0]
  /\ cuts_left = <<>>

\* no iteration followed, and no ttree_indexing chain in use
NoOther ==
  /\ started = [on |-> FALSE, seq |-> <<>>]
  /\ poc_entries = 0
  /\ poc_index = <<>>
  /\ poc_added = <<>>
  /\ poc_err = "none"

KeyInput(tcut, chain) == [tcut |-> tcut, chain |-> chain]

NoKeys ==
  /\ key_in = <<KeyInput(NoCut, dummy_chain), KeyInput(NoCut, dummy_chain)>>
  /\ key_out = <<NoFilename, NoFilename>>

\* a chain over a dataset of up to maxn records, before any cache exists
InitChain(maxn) ==
  /\ nentries \in 0..maxn
  /\ cache_dir \in {"absent", "file"}
  /\ disk = [k \in Filenames |-> Absent]
  /\ NewObject
  /\ NoTest
  /\ NoKeys
  /\ NoOther

\* the caller's calls leave the test and the key variables alone
Idle == UNCHANGED <<test_vars, key_vars, started, poc_vars>>

Init == InitChain(MaxEntries)

\* the entry numbers a caller enters: those of the chain, and none behind the
\* cursor of a list that is being replayed
CanEnter(tcut, ientry) ==
  /\ ientry \in 0..(nentries - 1)
  /\ ientry > Bound(entry_list, entry_list_file, fname_of(tcut)).returned

\* the lists of selections made of the selections in sel
ListsOf(sel) == {ts \in TcutLists : \A i \in 1..Len(ts) : ts[i] \in sel}

Retrieve(sel) == \E ts \in ListsOf(sel) : retrieve_entrylists(ts)

Preselect(sel) == \E tcut \in sel \cup {NoCut} : preselect(tcut)

AddEntry(sel) ==
  \E tcut \in sel : \E ientry \in 0..MaxEntries :
    CanEnter(tcut, ientry) /\ add_entry_to_list(tcut, ientry)

Delete(sel) == \E ts \in ListsOf(sel) : delete_entrylists(ts)

\* a caller that works with one selection
Next ==
  \/ Retrieve({even_cut}) /\ Idle
  \/ Preselect({even_cut}) /\ Idle
  \/ AddEntry({even_cut}) /\ Idle
  \/ save_lists /\ Idle
  \/ Delete({even_cut}) /\ Idle
  \/ NewChain /\ Idle
  \/ IterStart /\ Idle
  \/ Pull /\ Idle

vars == <<chain_vars, test_vars, key_vars, started, poc_vars>>

Spec == Init /\ [][Next]_vars

\* a caller that works with two selections and does not iterate
NextLists ==
  \/ Retrieve(Cuts) /\ Idle
  \/ AddEntry(Cuts) /\ Idle
  \/ save_lists /\ Idle
  \/ Delete(Cuts) /\ Idle
  \/ NewChain /\ Idle

InitLists == InitChain(MaxListEntries)

SpecLists == InitLists /\ [][NextLists]_vars

\* what the list loop of __iter__ yields from a list when nothing comes
\* between its pulls: Next() until it returns -1
RECURSIVE list_loop(_)
list_loop(list) ==
  IF NextValue(list) < 0 THEN <<>>
  ELSE <<NextValue(list)>> \o list_loop(NextList(list))

\* what the iteration whose body begins now is due to yield
Due ==
  IF Truthy(entry_list, entry_list_file, current_entrylist)
    THEN list_loop(Deref(entry_list, entry_list_file, current_entrylist))
    ELSE [i \in 1..xrange_bound(nentries) |-> i - 1]

Unfollowed == started' = [on |-> FALSE, seq |-> <<>>]

FollowedPull ==
  /\ Pull
  /\ started' = IF gen.st = "new" THEN [on |-> TRUE, seq |-> Due] ELSE started

Others == UNCHANGED <<test_vars, key_vars, poc_vars>>

\* a caller that calls add_entry_to_list, save_lists, delete_entrylists and
\* retrieve_entrylists between the pulls of an iteration
NextPull ==
  \/ Retrieve({even_cut}) /\ Idle
  \/ AddEntry({even_cut}) /\ Idle
  \/ save_lists /\ Idle
  \/ Delete({even_cut}) /\ Idle
  \/ Preselect({even_cut}) /\ Unfollowed /\ Others
  \/ IterStart /\ Unfollowed /\ Others
  \/ FollowedPull /\ Others

SpecPull == Init /\ [][NextPull]_vars

\* a caller that enters whatever entry number it has computed
AddAny(sel) ==
  \E tcut \in sel : \E ientry \in 0..MaxEntries :
    add_entry_to_list(tcut, ientry)

NextRange ==
  \/ Retrieve({even_cut}) /\ Idle
  \/ AddAny({even_cut}) /\ Idle
  \/ save_lists /\ Idle
  \/ NewChain /\ Idle

SpecRange == Init /\ [][NextRange]_vars

\* ------------------------------------------------------- cache file names
\* most files added to a chain a file name is asked for
MaxFiles == 2

\* names, expressions, tree names and file names to make selections and
\* datasets of
KeyNames == {"cut", "cut1"}

KeyTitles == {"x>0", "1x>0", "x>00"}

KeyTreenames == {"t", "0t"}

KeyFiles == {"f", "ff"}

KeyFileLists == UNION {[1..n -> KeyFiles] : n \in 0..MaxFiles}

KeyInputs ==
  {KeyInput(TCut(n, t), Dataset(tn, fs)) :
     n \in KeyNames, t \in KeyTitles, tn \in KeyTreenames, fs \in KeyFileLists}

\* chain.tcut_filename(tcut), for each of the two pairs
TcutFilenames ==
  /\ key_out = <<NoFilename, NoFilename>>
  /\ key_out' = <<tcut_filename(key_in[1].tcut, key_in[1].chain),
                  tcut_filename(key_in[2].tcut, key_in[2].chain)>>
  /\ UNCHANGED <<chain_vars, test_vars, key_in, started, poc_vars>>

InitKey ==
  /\ nentries = 0
  /\ cache_dir = "absent"
  /\ disk = [k \in Filenames |-> Absent]
  /\ NewObject
  /\ NoTest
  /\ key_in \in KeyInputs \X KeyInputs
  /\ key_out = <<NoFilename, NoFilename>>
  /\ NoOther

NextKey == TcutFilenames

SpecKey == InitKey /\ [][NextKey]_vars

\* ------------------------------------------- test_with_partial_entrylist
\* where the run goes after a call: on, or out with the exception raised
After(to) == IF last'.err # "none" THEN "raised" ELSE to

\* entry.x of the entry the generator has just yielded: x is the entry number
EntryX(ys) == ys[Len(ys)]

\* enumerate's ientry for the entry the generator has just yielded
Enumerated(ys) == Len(ys) - 1

\* for cut in cuts: if eval(cut_expr): counters[cut_name] += 1
Counted(counters, cuts, x) ==
  [c \in Cuts |->
     IF c \in {cuts[i] : i \in 1..Len(cuts)} /\ x \in pred[c]
       THEN counters[c] + 1 ELSE counters[c]]

\* chain.delete_entrylists(cuts)
TestDelete ==
  /\ pc = "delete"
  /\ delete_entrylists(<<even_cut, odd_cut>>)
  /\ pc' = After("count")
  /\ UNCHANGED <<pred, counters_pre, counters_post, cuts_left, key_vars,
                 started, poc_vars>>

\* the for statements over the chain: enumerate(chain) makes the generator
TestIter(at, to) ==
  /\ pc = at
  /\ IterStart
  /\ pc' = to
  /\ UNCHANGED <<pred, counters_pre, counters_post, cuts_left, key_vars,
                 started, poc_vars>>

\* run once and just count
TestCount ==
  /\ pc = "count_loop"
  /\ Pull
  /\ pc' = After(IF gen'.st = "done" THEN "retrieve" ELSE "count_loop")
  /\ counters_pre' =
       IF gen'.st = "done" THEN counters_pre
       ELSE Counted(counters_pre, <<even_cut, odd_cut>>, EntryX(yielded'))
  /\ UNCHANGED <<pred, counters_post, cuts_left, key_vars, started, poc_vars>>

\* cuts = [even_cut()]; chain.retrieve_entrylists(cuts)
TestRetrieveOne ==
  /\ pc = "retrieve"
  /\ retrieve_entrylists(<<even_cut>>)
  /\ pc' = After("fill")
  /\ UNCHANGED <<pred, counters_pre, counters_post, cuts_left, key_vars,
                 started, poc_vars>>

\* run once and fill the list for only one cut: the next entry
TestFill ==
  /\ pc = "fill_loop"
  /\ Pull
  /\ pc' = After(IF gen'.st = "done" THEN "save" ELSE "fill_body")
  /\ UNCHANGED <<pred, counters_pre, counters_post, cuts_left, key_vars,
                 started, poc_vars>>

\* ... and the body: if eval(cut_expr): chain.add_entry_to_list(cut, ientry)
TestFillBody ==
  /\ pc = "fill_body"
  /\ IF EntryX(yielded) \in pred[even_cut]
       THEN /\ add_entry_to_list(even_cut, Enumerated(yielded))
            /\ pc' = After("fill_loop")
       ELSE /\ pc' = "fill_loop"
            /\ UNCHANGED chain_vars
  /\ UNCHANGED <<pred, counters_pre, counters_post, cuts_left, key_vars,
                 started, poc_vars>>

\* chain.save_lists()
TestSave ==
  /\ pc = "save"
  /\ save_lists
  /\ pc' = After("new")
  /\ UNCHANGED <<pred, counters_pre, counters_post, cuts_left, key_vars,
                 started, poc_vars>>

\* chain = IndexedChain(dummy_treename()); chain.Add(dummy_filename())
TestNewChain ==
  /\ pc = "new"
  /\ NewChain
  /\ pc' = "retrieve_both"
  /\ UNCHANGED <<pred, counters_pre, counters_post, cuts_left, key_vars,
                 started, poc_vars>>

\* chain.retrieve_entrylists(cuts), and the list the first loop goes over
TestRetrieveBoth ==
  /\ pc = "retrieve_both"
  /\ retrieve_entrylists(<<even_cut, odd_cut>>)
  /\ pc' = After("with")
  /\ cuts_left' = tcuts_with_existing_list(tcuts', has_entry_list')
  /\ UNCHANGED <<pred, counters_pre, counters_post, key_vars, started,
                 poc_vars>>

\* for cut in chain.tcuts_with_existing_list(): chain.preselect(cut), and
\* chain.preselect(None) once the loop is over
TestPreselect ==
  /\ pc = "with"
  /\ preselect(IF cuts_left = <<>> THEN NoCut ELSE Head(cuts_left))
  /\ pc' = After(IF cuts_left = <<>> THEN "post" ELSE "replay")
  /\ UNCHANGED <<pred, counters_pre, counters_post, cuts_left, key_vars,
                 started, poc_vars>>

\* for entry in chain: counters_post[cut.GetName()] += 1
TestReplay ==
  /\ pc = "replay_loop"
  /\ Pull
  /\ pc' = After(IF gen'.st = "done" THEN "with" ELSE "replay_loop")
  /\ cuts_left' = IF gen'.st = "done" THEN Tail(cuts_left) ELSE cuts_left
  /\ counters_post' =
       IF gen'.st = "done" THEN counters_post
       ELSE [counters_post EXCEPT ![Head(cuts_left)] = @ + 1]
  /\ UNCHANGED <<pred, counters_pre, key_vars, started, poc_vars>>

\* the last loop: the selections of tcuts_without_existing_list(), evaluated
TestPost ==
  /\ pc = "post_loop"
  /\ Pull
  /\ pc' = After(IF gen'.st = "done" THEN "done" ELSE "post_loop")
  /\ counters_post' =
       IF gen'.st = "done" THEN counters_post
       ELSE Counted(counters_post,
                    tcuts_without_existing_list(tcuts, has_entry_list),
                    EntryX(yielded'))
  /\ UNCHANGED <<pred, counters_pre, cuts_left, key_vars, started, poc_vars>>

\* the test on a dataset of up to MaxEntries records, with any two
\* expressions, and a cache directory that is not there yet or holds files of
\* earlier runs
InitPartial ==
  /\ nentries \in 0..MaxEntries
  /\ \/ cache_dir = "absent" /\ disk = [k \in Filenames |-> Absent]
     \/ cache_dir = "dir" /\ disk \in [Filenames -> {Absent, ListFile({0})}]
  /\ NewObject
  /\ pc = "delete"
  /\ pred \in [Cuts -> SUBSET (0..(nentries - 1))]
  /\ counters_pre = [c \in Cuts |-> 0]
  /\ counters_post = [c \in Cuts |-> 0]
  /\ cuts_left = <<>>
  /\ NoKeys
  /\ NoOther

NextPartial ==
  \/ TestDelete
  \/ TestIter("count", "count_loop")
  \/ TestCount
  \/ TestRetrieveOne
  \/ TestIter("fill", "fill_loop")
  \/ TestFill
  \/ TestFillBody
  \/ TestSave
  \/ TestNewChain
  \/ TestRetrieveBoth
  \/ TestPreselect
  \/ TestIter("replay", "replay_loop")
  \/ TestReplay
  \/ TestIter("post", "post_loop")
  \/ TestPost

SpecPartial == InitPartial /\ [][NextPartial]_vars

\* ------------------------------------------------ ttree_indexing.py: Add
\* files added to the chain of ttree_indexing.py
MaxPocFiles == 2

\* records in a file added
MaxFileEntries == 2

\* length of an index list given with a file
MaxIndexLen == 2

\* largest event number in an index list (0-indexed event numbers)
MaxIndexValue == 3

IndexLists == UNION {[1..n -> 0..MaxIndexValue] : n \in 0..MaxIndexLen}

\* sorted(index)
RECURSIVE insert(_, _)
insert(x, s) ==
  IF s = <<>> THEN <<x>>
  ELSE IF x <= Head(s) THEN <<x>> \o s
  ELSE <<Head(s)>> \o insert(x, Tail(s))

RECURSIVE sorted(_)
sorted(index) ==
  IF index = <<>> THEN <<>> ELSE insert(Head(index), sorted(Tail(index)))

\* max(index_sorted), of a sequence that is not empty
max(s) ==
  LET values == {s[p] : p \in 1..Len(s)}
  IN CHOOSE x \in values : \A y \in values : y <= x

\* index_sorted[index_sorted<new_entries]
truncated(index_sorted, new_entries) ==
  SelectSeq(index_sorted, LAMBDA i : i < new_entries)

\* (an Add that stores the index as given, relative to the file)
unshifted(index_sorted, initial_entries) == index_sorted

\* index_sorted += initial_entries
shifted(index_sorted, initial_entries) ==
  [p \in 1..Len(index_sorted) |-> index_sorted[p] + initial_entries]

\* kwargs.get('index', [])
kwargs_get(given, index) == IF given THEN index ELSE <<>>

\* Add(file, index=...) of a file of n records; TChain.Add comes first, and
\* max() of an empty sequence raises ValueError
Add(n, given, arg) ==
  LET initial_entries == poc_entries
      new_entries == (poc_entries + n) - initial_entries
      index == kwargs_get(given, arg)
      index_sorted == sorted(index)
      kept == IF max(index_sorted) >= new_entries
                THEN truncated(index_sorted, new_entries) ELSE index_sorted
  IN /\ Len(poc_added) < MaxPocFiles
     /\ poc_entries' = poc_entries + n
     /\ poc_added' = Append(poc_added, [n |-> n, given |-> given, index |-> arg])
     /\ IF index_sorted = <<>>
          THEN /\ poc_err' = "ValueError"
               /\ UNCHANGED poc_index
          ELSE /\ poc_err' = "none"
               /\ poc_index' = poc_index \o shifted(kept, initial_entries)
     /\ UNCHANGED <<chain_vars, test_vars, key_vars, started>>

InitPoc ==
  /\ nentries = 0
  /\ cache_dir = "absent"
  /\ disk = [k \in Filenames |-> Absent]
  /\ NewObject
  /\ NoTest
  /\ NoKeys
  /\ NoOther

NextPoc ==
  \E n \in 0..MaxFileEntries : \E given \in BOOLEAN : \E arg \in IndexLists :
    (given \/ arg = <<>>) /\ Add(n, given, arg)

SpecPoc == InitPoc /\ [][NextPoc]_vars

\* ------------------------------------------------------------- properties
Range(seq) == {seq[i] : i \in 1..Len(seq)}

IsPrefix(p, q) == Len(p) <= Len(q) /\ \A i \in 1..Len(p) : p[i] = q[i]

With == tcuts_with_existing_list(tcuts, has_entry_list)

Without == tcuts_without_existing_list(tcuts, has_entry_list)

\* C1: after a pass that entered the entries P of a selection classified as
\* without list, in increasing order, then save_lists, a new
\* retrieve_entrylists and preselect of the selection, no call of the round
\* has raised, num_events_preselected() is |P| and the iteration started next
\* yields the entries of P in increasing order, and exactly those once it is
\* complete.
RoundTrip ==
  \A c \in Cuts :
    /\ rt[c].ph # "raised"
    /\ rt[c].ph \in {"pre", "iter"}
         => num_events_preselected = Cardinality(rt[c].P)
    /\ rt[c].ph = "iter" => IsPrefix(yielded, SortedSeq(rt[c].P))
    /\ rt[c].ph = "iter" /\ gen.st = "done" => yielded = SortedSeq(rt[c].P)

RoundTripDone ==
  /\ rt[even_cut].ph = "iter"
  /\ gen.st = "done"
  /\ nentries = 2
  /\ rt[even_cut].P = {1}

\* C4: a retrieve_entrylists that repeats the call made just before leaves
\* tcuts_with_existing_list() and tcuts_without_existing_list() as they were.
IdempotentRetrieval ==
  [][last'.repeated => With' = With /\ Without' = Without]_vars

RetrievedTwice == last.repeated /\ With # <<>> /\ Without # <<>>

\* C5: the retrieve_entrylists that follows a delete_entrylists of a
\* selection, on the same or on a new chain object, classifies the selection
\* as without existing list; delete_entrylists raises nothing, and changes
\* nothing when no file exists.
DeletionResets ==
  [][/\ \A c \in Cuts :
          rt'[c].reset => /\ has_entry_list'[fname_of(c)] = "False"
                          /\ c \in Range(Without')
                          /\ c \notin Range(With')
     /\ last'.op = "delete" =>
          /\ last'.err = "none"
          /\ (\A k \in Filenames : ~os_path_exists(disk, k)) =>
               UNCHANGED <<cache_dir, disk, tcuts, has_entry_list, entry_list,
                           entry_list_file, current_entrylist>>]_vars

ResetAfterRemoval ==
  /\ rt[even_cut].reset
  /\ rt[even_cut].removed
  /\ rt[even_cut].fresh

\* C6: the iteration started right after a preselect of a selection with an
\* existing list, and run to its end with nothing else called, yields the
\* entries of that list, each once, in stored order.
ReplayVisitsList ==
  replay.ph = "on" /\ gen.st = "done" => yielded = replay.seq

\* C7: an iteration that begins while no list is current (no preselect yet,
\* or preselect(None) last) yields 0, 1, ... in order, and all of
\* 0..nentries-1 once it is complete.
LinearMode ==
  gen.st \in {"linear", "done"} /\ gen.cur0 = None =>
    /\ IsPrefix(yielded, [i \in 1..nentries |-> i - 1])
    /\ gen.st = "done" => yielded = [i \in 1..nentries |-> i - 1]

LinearDoneWithCachedList ==
  /\ gen.st = "done"
  /\ gen.cur0 = None
  /\ nentries = 2
  /\ has_entry_list[fname_of(even_cut)] = "True"
  /\ last.op = "next"

\* C8: preselect of a selection with no cached list bound raises nothing and
\* leaves no list current, so that num_events_preselected() is 0 and the test
\* of the next iteration takes the linear loop.
DegradeToLinear ==
  last.op = "preselect" /\ last.tcut # NoCut
  /\ has_entry_list[fname_of(last.tcut)] # "True"
    => /\ last.err = "none"
       /\ current_entrylist = None
       /\ num_events_preselected = 0
       /\ ~Truthy(entry_list, entry_list_file, current_entrylist)

DegradedFromActive ==
  /\ last.op = "preselect"
  /\ last.tcut = even_cut
  /\ has_entry_list[fname_of(even_cut)] = "False"
  /\ last.was_active

\* C9: add_entry_to_list and save_lists leave the cache file of a selection
\* classified as having an existing list as it is.
NeverResaved ==
  [][\A k \in Filenames :
       has_entry_list[k] = "True" /\ last'.op \in {"save", "add"}
         => disk'[k] = disk[k]]_vars

SavedBesideLoaded ==
  /\ last.op = "save"
  /\ last.err = "none"
  /\ \E k \in Filenames :
       /\ has_entry_list[k] = "True"
       /\ ~Bound(entry_list, entry_list_file, k).null
       /\ Bound(entry_list, entry_list_file, k).items # disk[k].items
  /\ \E k \in Filenames : has_entry_list[k] = "False" /\ disk[k].st = "list"

\* C10: after save_lists returns, every selection classified as without
\* existing list has a cache file holding the entries entered for it,
\* however many retrieve_entrylists calls came before.
SaveWritesAllWithout ==
  last.op = "save" /\ last.err = "none" =>
    \A k \in Filenames :
      has_entry_list[k] = "False" => disk[k] = ListFile(entry_list[k].entered)

\* C2: two (selection name, expression, tree name, file list) inputs that
\* differ in a component get different digests and different cache file
\* names from tcut_filename.
KeySensitivity ==
  key_out # <<NoFilename, NoFilename>> /\ key_in[1] # key_in[2]
    => /\ key_out[1].digest # key_out[2].digest
       /\ key_out[1] # key_out[2]

\* C3: the run of test_with_partial_entrylist raises nothing, and at its end
\* the counts of the linear pass over both expressions equal the counts of
\* the new chain: replayed entries for the selections with a list, entries
\* passing the expression in a linear pass for those without.
PartialEquivalence ==
  /\ pc # "raised"
  /\ pc = "done" => counters_pre = counters_post

\* the run ended with the even selection replayed from its list of one entry
\* and the odd selection evaluated on both entries
PartialDone ==
  /\ pc = "done"
  /\ has_entry_list[fname_of(even_cut)] = "True"
  /\ has_entry_list[fname_of(odd_cut)] = "False"
  /\ pred[even_cut] = {1}
  /\ counters_post[even_cut] = 1
  /\ counters_post[odd_cut] = 2

\* C11: every list in memory and every list in a cache file holds entry
\* numbers of the chain only, 0..nentries-1.
IndexRange ==
  \A k \in Filenames :
    /\ entry_list[k].obj.items \subseteq 0..(nentries - 1)
    /\ entry_list_file[k].obj.items \subseteq 0..(nentries - 1)
    /\ disk[k].items \subseteq 0..(nentries - 1)

\* C12: retrieve_entrylists and save_lists make the cache directory when the
\* path does not exist; when the path exists and is not a directory they
\* raise AssertionError and leave the classification, the lists in memory
\* and the cache files as they were.
CacheDirectoryCheck ==
  [][last'.op \in {"retrieve", "save"} =>
       /\ cache_dir = "absent" => cache_dir' = "dir"
       /\ cache_dir = "dir" => cache_dir' = "dir" /\ last'.err # "AssertionError"
       /\ cache_dir = "file" =>
            /\ last'.err = "AssertionError"
            /\ UNCHANGED <<cache_dir, disk, tcuts, has_entry_list, entry_list,
                           entry_list_file, current_entrylist, gDirectory>>]_vars

InvalidCacheDirectory ==
  /\ cache_dir = "file"
  /\ last.op \in {"retrieve", "save"}
  /\ last.err = "AssertionError"
  /\ ~tcuts.set

\* C13: a retrieve_entrylists that finds the cache file of a selection
\* without a list named after the selection in it reports an error of its
\* own, and does not classify the selection as having an existing list.
CorruptReported ==
  \A k \in Filenames :
    last.op = "retrieve" /\ k \in Keys(tcuts.list) /\ disk[k].st = "empty"
      => /\ last.err \notin {"none", "AssertionError"}
         /\ has_entry_list[k] # "True"

\* C14: once retrieve_entrylists has run, every call but a further retrieve
\* (add_entry_to_list, save_lists, delete_entrylists, preselect, iteration)
\* leaves tcuts_with_existing_list() and tcuts_without_existing_list() as
\* they were: two disjoint lists that cover the selections retrieved. A
\* selection saved since stays without existing list.
ClassificationFixed ==
  [][tcuts.set /\ last'.op \notin {"retrieve", "new"} =>
       /\ With' = With
       /\ Without' = Without
       /\ Range(With') \cap Range(Without') = {}
       /\ Range(With') \cup Range(Without') = Range(tcuts'.list)
       /\ Len(With') + Len(Without') = Len(tcuts'.list)]_vars

SavedStaysWithout ==
  /\ last.op = "save"
  /\ last.err = "none"
  /\ even_cut \in Range(Without)
  /\ disk[fname_of(even_cut)].st = "list"

\* C15: delete_entrylists changes files only: the classification, the lists
\* in memory and the current list stay as they were, and the preselect of a
\* selection loaded before its file was deleted still makes its list, read
\* from the file that is gone, the current one and raises nothing.
DeleteTouchesFilesOnly ==
  [][/\ last'.op = "delete" =>
          /\ UNCHANGED <<cache_dir, tcuts, has_entry_list, entry_list,
                         entry_list_file, current_entrylist, gDirectory, gen,
                         yielded>>
          /\ With' = With
          /\ Without' = Without
          /\ \A k \in Filenames : disk'[k] \in {disk[k], Absent}
     /\ \A c \in Cuts :
          /\ last'.op = "preselect"
          /\ last'.tcut = c
          /\ has_entry_list[fname_of(c)] = "True"
          /\ ~os_path_exists(disk, fname_of(c))
          /\ ~Bound(entry_list, entry_list_file, fname_of(c)).null
          => /\ last'.err = "none"
             /\ Deref(entry_list', entry_list_file', current_entrylist')
                  = Bound(entry_list, entry_list_file, fname_of(c))
             /\ num_events_preselected'
                  = GetN(Bound(entry_list, entry_list_file, fname_of(c)))]_vars

ReplayedAfterDelete ==
  /\ last.op = "next"
  /\ gen.st = "done"
  /\ replay.ph = "on"
  /\ yielded = replay.seq
  /\ yielded # <<>>
  /\ has_entry_list[fname_of(even_cut)] = "True"
  /\ ~os_path_exists(disk, fname_of(even_cut))

\* C16: within one iteration the pulls yield, in order and each once, the
\* entries the iteration was due to yield when its body began (0..N-1 in the
\* linear loop, the current list in the list loop), whatever
\* add_entry_to_list, save_lists, delete_entrylists or retrieve_entrylists
\* calls come between the pulls.
PullResumption ==
  started.on =>
    /\ IsPrefix(yielded, started.seq)
    /\ last.op = "next" => last.err = "none"
    /\ gen.st = "done" => yielded = started.seq

\* C17: when retrieve_entrylists has returned, none of the cache files it
\* opened is still open.
ScopedHandles ==
  last.op = "retrieve" /\ last.err = "none" =>
    \A k \in Keys(tcuts.list) :
      os_path_exists(disk, k) => ~entry_list_file[k].open

\* the event numbers of the index given with file j that are in the file
InFile(j) ==
  SelectSeq(kwargs_get(poc_added[j].given, poc_added[j].index),
            LAMBDA i : i < poc_added[j].n)

\* the records in the files added before file j
RECURSIVE Offset(_)
Offset(j) == IF j <= 1 THEN 0 ELSE Offset(j - 1) + poc_added[j - 1].n

\* the values stored for the files added before file j
RECURSIVE Stored(_)
Stored(j) == IF j <= 1 THEN 0 ELSE Stored(j - 1) + Len(InFile(j - 1))

Times(v, s) == Cardinality({p \in 1..Len(s) : s[p] = v})

\* C18: the index accumulated by Add is, file after file, the event numbers
\* given with the file that are below its number of records, in
\* non-decreasing order and shifted by the records of the files before it;
\* so every value is a record of the chain, the index is non-decreasing, and
\* a value stored for file j designates the record of that number in file j.
IndexOffsetting ==
  /\ Len(poc_index) = Stored(Len(poc_added) + 1)
  /\ \A j \in 1..Len(poc_added) :
       LET block == SubSeq(poc_index, Stored(j) + 1, Stored(j + 1))
       IN /\ \A p \in 1..Len(block) :
               block[p] - Offset(j) \in 0..(poc_added[j].n - 1)
          /\ \A v \in 0..MaxIndexValue :
               Times(v + Offset(j), block) = Times(v, InFile(j))
          /\ \A p \in 1..(Len(block) - 1) : block[p] <= block[p + 1]
  /\ \A p \in 1..Len(poc_index) : poc_index[p] \in 0..(poc_entries - 1)
  /\ \A p \in 1..(Len(poc_index) - 1) : poc_index[p] <= poc_index[p + 1]

TwoFilesIndexed ==
  /\ Len(poc_added) = 2
  /\ poc_added[1] = [n |-> 2, given |-> TRUE, index |-> <<1, 0>>]
  /\ poc_added[2] = [n |-> 1, given |-> TRUE, index |-> <<3, 0>>]
  /\ poc_index = <<0, 1, 2>>
  /\ poc_err = "none"

\* C19: Add raises nothing, whatever the index given, and when none is
\* given; the event numbers beyond the file are dropped and the others kept.
AddNeverFaults ==
  /\ poc_err = "none"
  /\ Len(poc_index) = Stored(Len(poc_added) + 1)

\* C20: the current list is None or a list that retrieve_entrylists read from
\* a cache file (possibly destroyed since); a list made by retrieve_entrylists
\* for add_entry_to_list to fill is never the current one, and the list loop
\* of __iter__ never runs over such a list.
ActiveListLoaded ==
  /\ current_entrylist.ref \in {"None", "file", "deleted"}
  /\ current_entrylist.ref = "file" =>
       entry_list_file[current_entrylist.key].open
  /\ gen.st = "replay" => gen.cur0.ref = "file"
  /\ \A k \in Filenames :
       entry_list[k].st = "py" => current_entrylist # RefTo(entry_list, k)

ReplayBesideListBuilt ==
  /\ gen.st = "replay"
  /\ current_entrylist.ref = "file"
  /\ entry_list[current_entrylist.key].st = "py"
  /\ entry_list[current_entrylist.key].entered # {}
  /\ Truthy(entry_list, entry_list_file, current_entrylist)
====
